---- MODULE Spec2Model ----
(***************************************************************************)
(* A model of langchain_critique/tools.py: the three Critique adapters     *)
(* (CritiqueSearchTool, CritiqueAPIDesignTool, CritiqueDynamicAPITool),    *)
(* their input schemas, and the HTTP requests they send.                   *)
(*                                                                         *)
(* Conventions.                                                            *)
(*  - A Python Optional is a sequence of length 0 (None) or 1 (the value). *)
(*  - Text that the code inspects character by character (the image        *)
(*    argument) is a sequence of one-character strings; other text is a    *)
(*    TLA+ string.                                                         *)
(*  - An f-string is the sequence of its pieces.                           *)
(*  - A call is synchronous and single-threaded.  It runs up to the point  *)
(*    where requests.get/post/delete blocks (the request is appended to    *)
(*    http and pc names what is awaited) and goes on when the server's     *)
(*    response arrives; result is how the last operation ended.            *)
(***************************************************************************)
EXTENDS Integers, Sequences, FiniteSets, TLC

VARIABLES env, tool, call, http, result, pc

vars == <<env, tool, call, http, result, pc>>

(***************************************************************************)
(* Optionals and characters                                                *)
(***************************************************************************)
None == << >>

Some(x) == <<x>>

LowerLetters ==
  <<"a","b","c","d","e","f","g","h","i","j","k","l","m",
    "n","o","p","q","r","s","t","u","v","w","x","y","z">>

UpperLetters ==
  <<"A","B","C","D","E","F","G","H","I","J","K","L","M",
    "N","O","P","Q","R","S","T","U","V","W","X","Y","Z">>

Digits == {"0","1","2","3","4","5","6","7","8","9"}

Letters == {LowerLetters[i] : i \in 1..26} \cup {UpperLetters[i] : i \in 1..26}

Punctuation ==
  {":", "/", "?", "#", ".", ",", ";", "=", "!", "+", "-", "_", "[", "]", " "}

\* str.encode('ascii') succeeds exactly on these.
AsciiChars == Letters \cup Digits \cup Punctuation

\* str.lower on one character.
LowerChar(c) ==
  IF \E i \in 1..26 : UpperLetters[i] = c
  THEN LowerLetters[CHOOSE i \in 1..26 : UpperLetters[i] = c]
  ELSE c

\* str.lower
Lower(s) == [i \in 1..Len(s) |-> LowerChar(s[i])]

\* str.startswith
StartsWith(s, p) == Len(s) >= Len(p) /\ SubSeq(s, 1, Len(p)) = p

\* str.endswith
EndsWith(s, p) ==
  Len(s) >= Len(p) /\ SubSeq(s, Len(s) - Len(p) + 1, Len(s)) = p

\* str.find(c) for a set of characters, from position `from`; 0 when absent.
FindFrom(s, cs, from) ==
  IF \E i \in from..Len(s) : s[i] \in cs
  THEN CHOOSE i \in from..Len(s) :
         s[i] \in cs /\ \A j \in from..(i - 1) : s[j] \notin cs
  ELSE 0

Find(s, cs) == FindFrom(s, cs, 1)

\* str.rfind(c); 0 when absent.
RFind(s, cs) ==
  IF \E i \in 1..Len(s) : s[i] \in cs
  THEN CHOOSE i \in 1..Len(s) :
         s[i] \in cs /\ \A j \in (i + 1)..Len(s) : s[j] \notin cs
  ELSE 0

Contains(s, c) == \E i \in 1..Len(s) : s[i] = c

S_http == <<"h","t","t","p">>

S_data_image == <<"d","a","t","a",":","i","m","a","g","e">>

\* ['.jpg', '.jpeg', '.png', '.gif']
ImageExtensions ==
  { <<".","j","p","g">>, <<".","j","p","e","g">>,
    <<".","p","n","g">>, <<".","g","i","f">> }

(***************************************************************************)
(* urllib.parse.urlparse, as far as validate_image reads it                *)
(***************************************************************************)
\* urllib.parse.scheme_chars
SchemeChars == Letters \cup Digits \cup {"+", "-", "."}

\* urllib.parse.uses_params: '', 'ftp', 'http', 'https' (of its entries, those
\* a modelled URL can name)
UsesParams == { << >>, <<"f","t","p">>, S_http, S_http \o <<"s">> }

\* str[i:] and str[:i-1] for a 1-based position i
From(s, i) == SubSeq(s, i, Len(s))

Upto(s, i) == SubSeq(s, 1, i - 1)

\* urlparse's _splitparams: the path loses ";params" of its last segment.
splitparams(scheme, netloc, url, query, fragment, semi) ==
  [ raised |-> FALSE, scheme |-> scheme, netloc |-> netloc,
    path |-> IF scheme \in UsesParams /\ semi # 0 THEN Upto(url, semi) ELSE url,
    params |-> IF scheme \in UsesParams /\ semi # 0 THEN From(url, semi + 1) ELSE << >>,
    query |-> query, fragment |-> fragment ]

find_params(scheme, netloc, url, query, fragment, slash) ==
  splitparams(scheme, netloc, url, query, fragment,
              IF slash = 0 THEN Find(url, {";"}) ELSE FindFrom(url, {";"}, slash))

\* if '?' in url: url, query = url.split('?', 1)
split_query(scheme, netloc, url, fragment, qm) ==
  IF qm = 0
  THEN find_params(scheme, netloc, url, << >>, fragment, RFind(url, {"/"}))
  ELSE find_params(scheme, netloc, Upto(url, qm), From(url, qm + 1), fragment,
                   RFind(Upto(url, qm), {"/"}))

\* if '#' in url: url, fragment = url.split('#', 1)
split_fragment(scheme, netloc, url, hash) ==
  IF hash = 0
  THEN split_query(scheme, netloc, url, << >>, Find(url, {"?"}))
  ELSE split_query(scheme, netloc, Upto(url, hash), From(url, hash + 1),
                   Find(Upto(url, hash), {"?"}))

\* '[' without ']' (or the reverse) in the netloc: ValueError("Invalid IPv6 URL")
check_netloc(scheme, netloc, url) ==
  IF Contains(netloc, "[") # Contains(netloc, "]")
  THEN [ raised |-> TRUE, scheme |-> scheme, netloc |-> netloc, path |-> << >>,
         params |-> << >>, query |-> << >>, fragment |-> << >> ]
  ELSE split_fragment(scheme, netloc, url, Find(url, {"#"}))

\* _splitnetloc(url, 2): the netloc ends at the first of "/?#"
split_at(scheme, url, delim) ==
  IF delim = 0
  THEN check_netloc(scheme, From(url, 3), << >>)
  ELSE check_netloc(scheme, SubSeq(url, 3, delim - 1), From(url, delim))

\* if url[:2] == '//'
split_netloc(scheme, url) ==
  IF StartsWith(url, <<"/", "/">>)
  THEN split_at(scheme, url, FindFrom(url, {"/", "?", "#"}, 3))
  ELSE split_fragment(scheme, << >>, url, Find(url, {"#"}))

\* i = url.find(':'); the scheme is url[:i] when it starts with a letter and
\* holds scheme characters only.
split_scheme(url, colon) ==
  IF /\ colon > 1
     /\ url[1] \in Letters
     /\ \A k \in 1..(colon - 1) : url[k] \in SchemeChars
  THEN split_netloc(Lower(Upto(url, colon)), From(url, colon + 1))
  ELSE split_netloc(<< >>, url)

\* urlsplit followed by urlparse's _splitparams.
\* raised: urlsplit raised ValueError.
urlparse(url) == split_scheme(url, Find(url, {":"}))

(***************************************************************************)
(* base64.b64decode(data) with the default validate=False                  *)
(***************************************************************************)
B64Alphabet == Letters \cup Digits \cup {"+", "/"}

\* binascii.a2b_base64, non-strict: the scan over the characters from i on,
\* with quad_pos data characters pending in the current quad and pads
\* consecutive '=' seen.  TRUE when the decode succeeds.
RECURSIVE a2b_scan(_, _, _, _)
a2b_scan(s, i, quad_pos, pads) ==
  IF i > Len(s) THEN quad_pos = 0
  ELSE IF s[i] = "="
       THEN IF quad_pos >= 2 /\ quad_pos + pads + 1 >= 4
            THEN TRUE
            ELSE a2b_scan(s, i + 1, quad_pos,
                          IF quad_pos >= 2 THEN pads + 1 ELSE pads)
  ELSE IF s[i] \notin B64Alphabet
       THEN a2b_scan(s, i + 1, quad_pos, pads)
  ELSE a2b_scan(s, i + 1, (quad_pos + 1) % 4, 0)

\* TRUE when b64decode returns, FALSE when it raises (a non-ASCII str raises
\* ValueError before the scan; the scan raises binascii.Error).
b64decode_ok(data) ==
  /\ \A i \in 1..Len(data) : data[i] \in AsciiChars
  /\ a2b_scan(data, 1, 0, 0)

(***************************************************************************)
(* Outcomes of a call                                                      *)
(***************************************************************************)
Pending == [kind |-> "pending"]

Return(v) == [kind |-> "return", value |-> v]

\* msg: the pieces of the message.
Raise(exc, msg) == [kind |-> "raise", exc |-> exc, msg |-> msg]

(***************************************************************************)
(* CritiqueSearchInput.validate_image                                      *)
(***************************************************************************)
\* any(v.lower().endswith(ext) for ext in [...])
HasImageExtension(v) == \E ext \in ImageExtensions : EndsWith(Lower(v), ext)

\* v.split(',', 1) unpacks into (header, data) only when there is a comma.
AfterFirstComma(v) == SubSeq(v, Find(v, {","}) + 1, Len(v))

\* The branch for v.startswith('http'); u is urlparse(v).
validate_url(image, v, u) ==
  IF u.raised
  THEN Raise("ValueError", <<"Invalid image URL: ", "Invalid IPv6 URL">>)
  ELSE IF u.scheme = << >> \/ u.netloc = << >>
  THEN Raise("ValueError", <<"Invalid image URL: ", "Invalid URL format">>)
  ELSE IF ~HasImageExtension(v)
  THEN Raise("ValueError",
             <<"Invalid image URL: ", "URL must point to an image file">>)
  ELSE Return(image)

\* The branch for v.startswith('data:image').
validate_data(image, v) ==
  IF Find(v, {","}) # 0 /\ b64decode_ok(AfterFirstComma(v))
  THEN Return(image)
  ELSE Raise("ValueError", <<"Invalid base64 image format">>)

validate_text(image, v) ==
  IF StartsWith(v, S_http) THEN validate_url(image, v, urlparse(v))
  ELSE IF StartsWith(v, S_data_image) THEN validate_data(image, v)
  ELSE Raise("ValueError",
             <<"Image must be either a URL or base64 encoded string">>)

validate_image(image) ==
  IF image = None THEN Return(image) ELSE validate_text(image, image[1])

(***************************************************************************)
(* Inputs of the image validator                                           *)
(***************************************************************************)
MaxPayloadLen == 4

RECURSIVE SeqsUpTo(_, _)
SeqsUpTo(S, n) ==
  IF n = 0 THEN { << >> }
  ELSE LET shorter == SeqsUpTo(S, n - 1)
       IN  shorter \cup { Append(s, c) : s \in { t \in shorter : Len(t) = n - 1 }, c \in S }

UrlSchemes ==
  { S_http, S_http \o <<"s">>, S_http \o <<"x">>, S_http \o <<"_">>,
    <<"H","T","T","P">>, <<"f","t","p">> }

UrlSeparators == { <<":","/","/">>, <<":","/">>, <<":">>, <<"/","/">>, << >> }

UrlHosts == { << >>, <<"h">>, <<"h",".","j","p","g">>, <<"[","h">> }

UrlPaths ==
  { << >>, <<"/","a">>,
    <<"/","a",".","j","p","g">>, <<"/","a",".","J","P","G">>,
    <<"/","a",".","j","p","e","g">>, <<"/","a",".","p","n","g">>,
    <<"/","a",".","g","i","f">>, <<"/","a",".","t","x","t">> }

UrlTails ==
  { << >>, <<"?","q">>, <<"?","x",".","j","p","g">>, <<"#","f">>,
    <<"#",".","p","n","g">>, <<";","v">> }

UrlInputs ==
  { s \o sep \o h \o p \o t :
      s \in UrlSchemes, sep \in UrlSeparators, h \in UrlHosts,
      p \in UrlPaths, t \in UrlTails }

DataPrefixes ==
  { S_data_image, <<"d","a","t","a",":","t","e","x","t">>, << >> }

DataHeaders == { <<"/","p","n","g",";","b","a","s","e","6","4">>, << >> }

DataCommas == { <<",">>, << >> }

\* "é" is outside ASCII.
PayloadChars == {"a", "=", "!", "é"}

DataInputs ==
  { p \o h \o c \o d :
      p \in DataPrefixes, h \in DataHeaders, c \in DataCommas,
      d \in SeqsUpTo(PayloadChars, MaxPayloadLen) }

ImageInputs == {None} \cup { Some(s) : s \in UrlInputs \cup DataInputs }

(***************************************************************************)
(* The validator on its own                                                *)
(***************************************************************************)
InitImage ==
  /\ env = None
  /\ tool = None
  /\ http = << >>
  /\ result = Pending
  /\ pc = "idle"
  /\ \E i \in ImageInputs : call = [op |-> "image_input", image |-> i]

ValidateImage ==
  /\ call.op = "image_input"
  /\ call' = [call EXCEPT !.op = "validate_image"]
  /\ result' = validate_image(call.image)
  /\ UNCHANGED <<env, tool, http, pc>>

NextImage == ValidateImage

SpecImage == InitImage /\ [][NextImage]_vars

(***************************************************************************)
(* Python truthiness, `or`, base64.b64encode, response.json()              *)
(***************************************************************************)
\* bool(x) of an Optional[str] held as a TLA+ string
TruthyStr(o) == o # None /\ o[1] # ""

\* bool(x) of an Optional[str] held as a character sequence
TruthyText(o) == o # None /\ o[1] # << >>

\* a or b
OrStr(a, b) == IF TruthyStr(a) THEN a ELSE b

\* The standard base64 alphabet, in order.
B64Table ==
  UpperLetters \o LowerLetters \o
  <<"0","1","2","3","4","5","6","7","8","9","+","/">>

\* base64.b64encode(content).decode('utf-8'); content is a sequence of bytes.
RECURSIVE b64encode(_)
b64encode(b) ==
  IF Len(b) = 0 THEN << >>
  ELSE IF Len(b) = 1
  THEN << B64Table[(b[1] \div 4) + 1], B64Table[((b[1] % 4) * 16) + 1], "=", "=" >>
  ELSE IF Len(b) = 2
  THEN << B64Table[(b[1] \div 4) + 1],
          B64Table[((b[1] % 4) * 16 + (b[2] \div 16)) + 1],
          B64Table[((b[2] % 16) * 4) + 1], "=" >>
  ELSE << B64Table[(b[1] \div 4) + 1],
          B64Table[((b[1] % 4) * 16 + (b[2] \div 16)) + 1],
          B64Table[((b[2] % 16) * 4 + (b[3] \div 64)) + 1],
          B64Table[(b[3] % 64) + 1] >>
       \o b64encode(SubSeq(b, 4, Len(b)))

\* The response bodies the modelled servers send.
T_pong == "{\"response\": \"pong\", \"citations\": []}"

T_list == "[{\"id\": \"a1\"}]"

T_error == "\"server error\""

T_html == "<html>Bad Gateway</html>"

ResponseTexts == {T_pong, T_list, T_error, T_html}

\* response.json(): the parsed body, or raised (JSONDecodeError) for a body
\* that is not JSON.
json_loads(text) ==
  CASE text = T_pong ->
         [raised |-> FALSE,
          value |-> [j |-> "object",
                     members |-> << <<"response", [j |-> "string", s |-> "pong"]>>,
                                    <<"citations", [j |-> "array", items |-> << >>]>> >>]]
    [] text = T_list ->
         [raised |-> FALSE,
          value |-> [j |-> "array",
                     items |-> << [j |-> "object",
                                   members |-> << <<"id", [j |-> "string", s |-> "a1"]>> >>] >>]]
    [] text = T_error ->
         [raised |-> FALSE, value |-> [j |-> "string", s |-> "server error"]]
    [] OTHER -> [raised |-> TRUE, value |-> [j |-> "none"]]

(***************************************************************************)
(* HTTP                                                                    *)
(***************************************************************************)
HTTP_OK == 200

Statuses == {200, 201, 204, 404, 500}

Responses == [status : Statuses, text : ResponseTexts]

\* A request as handed to requests.get / requests.post / requests.delete.
Request(method, url, headers, json) ==
  [method |-> method, url |-> url, headers |-> headers, json |-> json]

\* if response.status_code != 200
StatusFailsMutant(status) == status >= 500

StatusFails(status) == status # HTTP_OK

\* raise ValueError(f"<prefix>{response.text}") / return response.json()
\* return response.json()
ReturnJson(text, parsed) ==
  IF parsed.raised THEN Raise("JSONDecodeError", <<text>>) ELSE Return(parsed.value)

Finish(prefix, resp) ==
  IF StatusFails(resp.status) THEN Raise("ValueError", <<prefix, resp.text>>)
  ELSE ReturnJson(resp.text, json_loads(resp.text))

\* A stretch of a call: the requests it sent and how it ended (Pending when
\* the call is blocked on the response to the last request).
Step(sent, res) == [http |-> sent, result |-> res]

(***************************************************************************)
(* Construction: the three __init__ methods                                *)
(***************************************************************************)
DefaultBaseUrl == "https://api.critiquebrowser.app"

NoKeyMessage ==
  << "Critique API key must be provided either through api_key parameter ",
     "or CRITIQUE_API_KEY environment variable" >>

\* self.headers = {"X-API-Key": self.api_key, "Content-Type": "application/json"}
Headers(key) == ("X-API-Key" :> key) @@ ("Content-Type" :> Some("application/json"))

\* CritiqueSearchTool.__init__: the instance, or the error raised.
SearchTool(api_key, base_url, environ) ==
  LET key == OrStr(api_key, environ) IN
  IF ~TruthyStr(key) THEN Raise("ValueError", NoKeyMessage)
  ELSE Return([cls |-> "search",
               name |-> "critique_search",
               args_schema |-> "CritiqueSearchInput",
               api_key |-> key, base_url |-> base_url, headers |-> Headers(key)])

\* CritiqueAPIDesignTool.__init__
APIDesignTool(api_key, base_url, environ) ==
  LET key == OrStr(api_key, environ) IN
  IF ~TruthyStr(key) THEN Raise("ValueError", NoKeyMessage)
  ELSE Return([cls |-> "design",
               name |-> "critique_api_design",
               args_schema |-> "CritiqueAPIDesignInput",
               api_key |-> key, base_url |-> base_url, headers |-> Headers(key)])

\* (v["type"], Field(..., description=v.get("description", "")))
compile_field_mutant(v) ==
  [type |-> v.type, required |-> FALSE,
   description |-> IF v.description = None THEN "" ELSE v.description[1]]

compile_field(v) ==
  [type |-> v.type, required |-> TRUE,
   description |-> IF v.description = None THEN "" ELSE v.description[1]]

\* create_model(f"CritiqueAPI_{api_id}_Input", **{k: ... for k, v in input_schema.items()})
create_model(api_id, input_schema) ==
  [model_name |-> <<"CritiqueAPI_", api_id, "_Input">>,
   fields |-> [k \in DOMAIN input_schema |-> compile_field(input_schema[k])]]

\* CritiqueDynamicAPITool.__init__: no check of the resolved key.
DynamicAPITool(api_id, name, description, input_schema, api_key, base_url, environ) ==
  LET key == OrStr(api_key, environ) IN
  Return([cls |-> "dynamic",
          api_id |-> api_id, name |-> name, description |-> description,
          args_schema |-> create_model(api_id, input_schema),
          api_key |-> key, base_url |-> base_url, headers |-> Headers(key)])

(***************************************************************************)
(* CritiqueSearchTool: args_schema validation, _image_to_base64, _run      *)
(***************************************************************************)
\* CritiqueSearchInput(**tool_input): prompt is required, image goes through
\* validate_image.  pydantic raises ValidationError for either.
search_input_checked(args, checked) ==
  IF args.prompt = None
  THEN Raise("ValidationError", <<"prompt", "Field required">>)
  ELSE IF checked.kind = "raise"
  THEN Raise("ValidationError", <<"image">> \o checked.msg)
  ELSE Return(args)

validate_search_input(args) == search_input_checked(args, validate_image(args.image))

\* BaseTool.invoke: _run is entered only when the input validated.
Validated(checked, step) ==
  IF checked.kind = "raise" THEN Step(<< >>, checked) ELSE step

\* if image and image.startswith('http')
NeedsFetchMutant(image) ==
  TruthyText(image) /\ StartsWith(image[1], S_http \o <<"s">>)

NeedsFetch(image) == TruthyText(image) /\ StartsWith(image[1], S_http)

S_jpeg_prefix ==
  S_data_image \o <<"/","j","p","e","g",";","b","a","s","e","6","4",",">>

\* f"data:image/jpeg;base64,{base64_encoded}"
image_to_base64(content) == S_jpeg_prefix \o b64encode(content)

\* payload = {...}; if image: payload["image"] = image
search_payload(prompt, image, source_blacklist, output_format) ==
  LET base ==
        ("prompt" :> prompt)
        @@ ("source_blacklist" :>
              (IF source_blacklist = None \/ source_blacklist[1] = << >>
               THEN << >> ELSE source_blacklist[1]))
        @@ ("output_format" :>
              (IF output_format = None \/ output_format[1] = << >>
               THEN << >> ELSE output_format[1]))
  IN  IF TruthyText(image) THEN base @@ ("image" :> image[1]) ELSE base

\* requests.post(f"{self.base_url}/v1/search", headers=self.headers, json=payload)
search_request(self, args, image) ==
  Request("POST", <<self.base_url, "/v1/search">>, Some(self.headers),
          Some(search_payload(args.prompt[1], image,
                              args.source_blacklist, args.output_format)))

\* CritiqueSearchTool._run up to its first request: the GET of the image
\* (requests.get(image_url)) or the POST.
search_run(self, args) ==
  IF NeedsFetch(args.image)
  THEN Step(<<Request("GET", args.image[1], None, None)>>, Pending)
  ELSE Step(<<search_request(self, args, args.image)>>, Pending)

\* CritiqueSearchTool._image_to_base64 from the image host's response on, and
\* _run up to the POST.
search_fetched_mutant(self, args, fetch) ==
  Step(<<search_request(self, args, Some(image_to_base64(fetch.content)))>>, Pending)

search_fetched(self, args, fetch) ==
  IF StatusFails(fetch.status)
  THEN Step(<< >>, Raise("ValueError",
                         <<"Failed to fetch image. Status code: ", ToString(fetch.status)>>))
  ELSE Step(<<search_request(self, args, Some(image_to_base64(fetch.content)))>>, Pending)

\* tool.invoke(args): BaseTool validates against args_schema, then calls _run.
search_invoke(self, args) ==
  Validated(validate_search_input(args), search_run(self, args))

(***************************************************************************)
(* CritiqueAPIDesignTool: APIOperation, args_schema validation, _run       *)
(***************************************************************************)
CREATE == "create"

UPDATE == "update"

DELETE == "delete"

LIST == "list"

APIOperation == {CREATE, UPDATE, DELETE, LIST}

\* CritiqueAPIDesignInput(**tool_input): operation must be an APIOperation.
validate_design_input(args) ==
  IF args.operation \notin APIOperation
  THEN Raise("ValidationError", <<"operation", "Input should be 'create', 'update', 'delete' or 'list'">>)
  ELSE Return(args)

\* if not api_id / if not prompt
MissingMutant(x) == x = None

Missing(x) == ~TruthyStr(x)

\* f"{endpoint}/{api_id}"
delete_url_mutant(endpoint, api_id) == endpoint

delete_url(endpoint, api_id) == endpoint \o <<"/", api_id>>

\* {"original_prompt": prompt, "id": None}
create_payload(prompt) == ("original_prompt" :> prompt) @@ ("id" :> None)

\* {"id": api_id, "prompt": prompt, "schema_updates": schema_updates}
update_payload(api_id, prompt, schema_updates) ==
  ("id" :> api_id) @@ ("prompt" :> prompt) @@ ("schema_updates" :> schema_updates)

\* CritiqueAPIDesignTool._run up to its request.
design_run(self, args) ==
  LET endpoint == <<self.base_url, "/v1/design-api">>
      done(req) == Step(<<req>>, Pending)
      fail(msg) == Step(<< >>, Raise("ValueError", <<msg>>))
  IN  IF args.operation = LIST
      THEN done(Request("GET", endpoint, Some(self.headers), None))
      ELSE IF args.operation = DELETE
      THEN IF Missing(args.api_id)
           THEN fail("api_id is required for delete operation")
           ELSE done(Request("DELETE", delete_url(endpoint, args.api_id[1]),
                             Some(self.headers), None))
      ELSE IF args.operation = CREATE
      THEN IF Missing(args.prompt)
           THEN fail("prompt is required for create operation")
           ELSE done(Request("POST", endpoint, Some(self.headers),
                             Some(create_payload(args.prompt))))
      ELSE IF args.operation = UPDATE
      THEN IF Missing(args.api_id)
           THEN fail("api_id is required for update operation")
           ELSE done(Request("POST", endpoint, Some(self.headers),
                             Some(update_payload(args.api_id, args.prompt,
                                                 args.schema_updates))))
      \* no branch assigned `response`
      ELSE Step(<< >>, Raise("UnboundLocalError", <<"response">>))

design_invoke(self, args) ==
  Validated(validate_design_input(args), design_run(self, args))

(***************************************************************************)
(* CritiqueDynamicAPITool: the compiled args_schema and _run               *)
(***************************************************************************)
\* A Python value: its type, its text (repr) and, for a list, its elements.
PyStr(s) == [ty |-> "str", v |-> s, items |-> << >>]

PyInt(n) == [ty |-> "int", v |-> ToString(n), items |-> << >>]

PyList(elems) == [ty |-> "list", v |-> "", items |-> elems]

\* The annotation is v["type"] alone: `list` accepts a list of anything.
conforms(value, type) == value.ty = type

\* args_schema(**tool_input) on the compiled model: a required field must be
\* present, a present field must conform.  Unknown names are ignored.
validate_dynamic_input(schema, args) ==
  IF \E k \in DOMAIN schema.fields :
       schema.fields[k].required /\ k \notin DOMAIN args
  THEN Raise("ValidationError", <<schema.model_name, "Field required">>)
  ELSE IF \E k \in DOMAIN schema.fields \cap DOMAIN args :
            ~conforms(args[k], schema.fields[k].type)
  THEN Raise("ValidationError", <<schema.model_name, "Input should be a valid value">>)
  ELSE Return([k \in DOMAIN schema.fields \cap DOMAIN args |-> args[k]])

\* json=kwargs
dynamic_body_mutant(self, kwargs) == kwargs @@ ("api_id" :> PyStr(self.api_id))

dynamic_body(self, kwargs) == kwargs

\* CritiqueDynamicAPITool._run up to its request.
dynamic_run(self, kwargs) ==
  LET endpoint == <<self.base_url, "/v1/user-defined-service/", self.api_id>>
      req == Request("POST", endpoint, Some(self.headers),
                     Some(dynamic_body(self, kwargs)))
  IN  Step(<<req>>, Pending)

\* tool.invoke(args): BaseTool validates against self.args_schema and passes
\* the validated fields to _run as keyword arguments.
dynamic_validated(self, checked) ==
  IF checked.kind = "raise" THEN Step(<< >>, checked)
  ELSE dynamic_run(self, checked.value)

dynamic_invoke(self, args) ==
  dynamic_validated(self, validate_dynamic_input(self.args_schema, args))

\* The prefix of the error message of each adapter's _run.
FailurePrefix(cls) ==
  CASE cls = "search" -> "Search failed: "
    [] cls = "design" -> "API design operation failed: "
    [] cls = "dynamic" -> "API execution failed: "

(***************************************************************************)
(* Inputs                                                                  *)
(***************************************************************************)
\* os.environ.get("CRITIQUE_API_KEY")
EnvValues == {None, Some(""), Some("env-key")}

ApiKeyArgs == {None, Some(""), Some("fake_key")}

BaseUrls == {DefaultBaseUrl, "http://localhost:8000"}

SearchImages ==
  {None, Some(<< >>), Some(<<"f","t","p",":","/","/","h","/","a",".","j","p","g">>)}
  \cup { Some(s \o <<":","/","/","h">> \o p \o t) :
           s \in { S_http, S_http \o <<"s">>, <<"H","T","T","P">> },
           p \in { <<"/","a",".","j","p","g">>, <<"/","a">> },
           t \in { << >>, <<"?","x",".","p","n","g">> } }
  \cup { Some(S_data_image \o <<"/","p","n","g",";","b","a","s","e","6","4",",">> \o d) :
           d \in { << >>, <<"a","a","a","a">>, <<"a">>, <<"!","!">> } }

SearchArgs ==
  [ prompt : {None, Some("ping")},
    image : SearchImages,
    source_blacklist : {Some(<<"unreliable-news.com">>)},
    output_format : {None} ]

MaxContentLen == 2

\* response.content of the image host: byte strings
ImageContents == SeqsUpTo({255, 137}, MaxContentLen)

FetchResponses == [status : Statuses, content : ImageContents]

DesignArgs ==
  [ operation : APIOperation \cup {"purge"},
    prompt : {None, Some(""), Some("Add carbon footprint metrics")},
    api_id : {None, Some(""), Some("api_123")},
    schema_updates : {None, Some(<<"carbon">>)} ]

\* input_schema: field name -> {"type": ..., "description": ...}
InputSchemas ==
  { << >>,
    ("company_name" :> [type |-> "str", description |-> Some("Name of the company"),
                        items_type |-> None]),
    ("company_name" :> [type |-> "str", description |-> Some("Name of the company"),
                        items_type |-> None])
    @@ ("metrics" :> [type |-> "list", description |-> None,
                      items_type |-> Some("str")]) }

ArgValues ==
  ("company_name" :> {PyStr("Test Corp"), PyInt(7)})
  @@ ("metrics" :> {PyList(<<PyStr("environmental"), PyStr("social")>>),
                    PyList(<<PyInt(1)>>), PyStr("social")})
  @@ ("note" :> {PyStr("extra")})

\* The argument mappings a caller passes to a dynamic tool.
DynamicArgs ==
  UNION { { f \in [names -> UNION {ArgValues[k] : k \in names}] :
              \A k \in names : f[k] \in ArgValues[k] } :
          names \in SUBSET (DOMAIN ArgValues) }

(***************************************************************************)
(* The adapters in use                                                     *)
(***************************************************************************)
Init ==
  /\ env \in EnvValues
  /\ tool = None
  /\ call = [op |-> "none"]
  /\ http = << >>
  /\ result = Pending
  /\ pc = "idle"

\* tool = Cls(...): the variable is bound only when __init__ returns.
Construct(c, made) ==
  /\ call' = c
  /\ result' = made
  /\ tool' = IF made.kind = "return" THEN Some(made.value) ELSE tool
  /\ http' = << >>
  /\ UNCHANGED <<env, pc>>

NewSearchTool ==
  /\ pc = "idle"
  /\ \E k \in ApiKeyArgs, u \in BaseUrls :
       Construct([op |-> "new", cls |-> "search", api_key |-> k, base_url |-> u],
                 SearchTool(k, u, env))

NewAPIDesignTool ==
  /\ pc = "idle"
  /\ \E k \in ApiKeyArgs, u \in BaseUrls :
       Construct([op |-> "new", cls |-> "design", api_key |-> k, base_url |-> u],
                 APIDesignTool(k, u, env))

NewDynamicAPITool ==
  /\ pc = "idle"
  /\ \E k \in ApiKeyArgs, u \in BaseUrls, schema \in InputSchemas :
       Construct([op |-> "new", cls |-> "dynamic", api_key |-> k, base_url |-> u,
                  input_schema |-> schema],
                 DynamicAPITool("test_api", "ESG Score API",
                                "Get ESG scores for companies", schema, k, u, env))

\* The start of tool.invoke(args): validation and _run up to its first request.
Begin_mutant(args, step, awaiting) ==
  /\ call' = [op |-> "invoke", cls |-> tool[1].cls, args |-> args, responses |-> << >>]
  /\ http' = step.http
  /\ result' = step.result
  /\ pc' = IF step.result = Pending THEN awaiting ELSE "idle"
  /\ tool' = Some([tool[1] EXCEPT !.headers = Headers(env)])
  /\ UNCHANGED env

Begin(args, step, awaiting) ==
  /\ call' = [op |-> "invoke", cls |-> tool[1].cls, args |-> args, responses |-> << >>]
  /\ http' = step.http
  /\ result' = step.result
  /\ pc' = IF step.result = Pending THEN awaiting ELSE "idle"
  /\ UNCHANGED <<env, tool>>

InvokeSearch ==
  /\ pc = "idle" /\ tool # None /\ tool[1].cls = "search"
  /\ \E args \in SearchArgs :
       Begin(args, search_invoke(tool[1], args),
             IF NeedsFetch(args.image) THEN "fetch" ELSE "response")

InvokeAPIDesign ==
  /\ pc = "idle" /\ tool # None /\ tool[1].cls = "design"
  /\ \E args \in DesignArgs : Begin(args, design_invoke(tool[1], args), "response")

InvokeDynamic ==
  /\ pc = "idle" /\ tool # None /\ tool[1].cls = "dynamic"
  /\ \E args \in DynamicArgs : Begin(args, dynamic_invoke(tool[1], args), "response")

\* requests.get(image_url) returns.
Continue(resp, step) ==
  /\ call' = [call EXCEPT !.responses = Append(@, resp)]
  /\ http' = http \o step.http
  /\ result' = step.result
  /\ pc' = IF step.result = Pending THEN "response" ELSE "idle"
  /\ UNCHANGED <<env, tool>>

ImageFetched ==
  /\ pc = "fetch"
  /\ \E fetch \in FetchResponses :
       Continue(fetch, search_fetched(tool[1], call.args, fetch))

\* The request to the Critique endpoint returns.
Responded ==
  /\ pc = "response"
  /\ \E resp \in Responses :
       Continue(resp, Step(<< >>, Finish(FailurePrefix(call.cls), resp)))

Next ==
  \/ NewSearchTool
  \/ NewAPIDesignTool
  \/ NewDynamicAPITool
  \/ InvokeSearch
  \/ InvokeAPIDesign
  \/ InvokeDynamic
  \/ ImageFetched
  \/ Responded

Spec == Init /\ [][Next]_vars

(***************************************************************************)
(* Properties                                                              *)
(***************************************************************************)
Invoking(cls) == call.op = "invoke" /\ call.cls = cls

\* The requests of the current call that went to the adapter's Critique
\* endpoint (the GET of an image goes to the image's own host).
ToCritique(r) == r.url[1] = tool[1].base_url

CritiqueRequests == { i \in 1..Len(http) : ToCritique(http[i]) }

\* The current call has ended and its last response came from the Critique
\* endpoint.
EndpointAnswered ==
  /\ call.op = "invoke" /\ pc = "idle"
  /\ call.responses # << >>
  /\ Len(call.responses) = Len(http)
  /\ ToCritique(http[Len(http)])

LastResponse == call.responses[Len(call.responses)]

Is2xx(status) == status >= 200 /\ status <= 299

\* The body text is JSON.
IsJson(text) == text \in {T_pong, T_list, T_error}

\* C1: a designAPI call with operation DELETE or UPDATE and no (or empty)
\* api_id, or with operation CREATE and no (or empty) prompt, fails with a
\* validation error and no HTTP request is sent for it.
C1_MissingArgument ==
  /\ Invoking("design")
  /\ \/ call.args.operation \in {DELETE, UPDATE} /\ ~TruthyStr(call.args.api_id)
     \/ call.args.operation = CREATE /\ ~TruthyStr(call.args.prompt)

C1_MissingArgumentFails ==
  C1_MissingArgument =>
    /\ pc = "idle"
    /\ result.kind = "raise" /\ result.exc = "ValueError"
    /\ http = << >>

C1_Witness ==
  /\ Invoking("design")
  /\ call.args.operation = UPDATE /\ call.args.api_id = Some("")
  /\ call.args.prompt # None
  /\ result.kind = "raise"

\* C2: a designAPI call whose precondition holds issues exactly one HTTP
\* request, the one the dispatch table names: LIST -> GET endpoint whatever the
\* other arguments; DELETE -> DELETE endpoint/{api_id}; CREATE -> POST endpoint
\* with {original_prompt: prompt, id: null}; UPDATE -> POST endpoint with
\* {id, prompt, schema_updates}.  No operation tag goes without a request.
C2_Expected(args) ==
  LET endpoint == <<tool[1].base_url, "/v1/design-api">> IN
  CASE args.operation = LIST -> [method |-> "GET", url |-> endpoint, json |-> None]
    [] args.operation = DELETE ->
         [method |-> "DELETE", url |-> <<tool[1].base_url, "/v1/design-api", "/", args.api_id[1]>>,
          json |-> None]
    [] args.operation = CREATE ->
         [method |-> "POST", url |-> endpoint,
          json |-> Some(("original_prompt" :> args.prompt) @@ ("id" :> None))]
    [] args.operation = UPDATE ->
         [method |-> "POST", url |-> endpoint,
          json |-> Some(("id" :> args.api_id) @@ ("prompt" :> args.prompt)
                        @@ ("schema_updates" :> args.schema_updates))]

C2_DispatchTable ==
  (Invoking("design") /\ call.args.operation \in APIOperation /\ ~C1_MissingArgument) =>
    /\ Len(http) = 1
    /\ [method |-> http[1].method, url |-> http[1].url, json |-> http[1].json]
         = C2_Expected(call.args)

C2_Witness ==
  /\ Invoking("design") /\ pc = "idle"
  /\ call.args.operation = DELETE /\ call.args.api_id = Some("api_123")
  /\ Len(http) = 1 /\ http[1].method = "DELETE"
  /\ result.kind = "return"

\* C3: for every adapter, a call whose Critique endpoint response is non-2xx
\* raises an error whose message contains the response body text, returns
\* nothing, and has sent exactly one request to the endpoint.
C3_Non2xxRaises ==
  (EndpointAnswered /\ ~Is2xx(LastResponse.status)) =>
    /\ result.kind = "raise"
    /\ \E i \in 1..Len(result.msg) : result.msg[i] = LastResponse.text
    /\ Cardinality(CritiqueRequests) = 1

C3_Witness ==
  /\ EndpointAnswered /\ Invoking("search")
  /\ Len(http) = 2
  /\ LastResponse.status = 404 /\ LastResponse.text = T_error
  /\ result.kind = "raise"

\* The image string handed to the validator, once it has run.
ImageValidated == call.op = "validate_image" /\ call.image # None

Accepted == result.kind = "return" /\ result.value = call.image

Rejected == result.kind = "raise" /\ result.exc = "ValueError"

\* The path component of the parsed URL ends in .jpg, .jpeg, .png or .gif.
C4_IsImageUrl(u) ==
  /\ ~u.raised
  /\ u.scheme # << >> /\ u.netloc # << >>
  /\ \E ext \in ImageExtensions : EndsWith(Lower(u.path), ext)

\* C4: for every image string that looks like an HTTP(S) URL, validation
\* succeeds and returns the string unchanged if the URL has a scheme, a host
\* and a path ending in .jpg, .jpeg, .png or .gif, and fails with a validation
\* error if the scheme or host is missing or the path does not end in one of
\* those extensions.
C4_UrlValidation ==
  (ImageValidated /\ StartsWith(call.image[1], S_http)) =>
    IF C4_IsImageUrl(urlparse(call.image[1])) THEN Accepted ELSE Rejected

\* RFC 4648 base64: groups of four alphabet characters, the last group
\* possibly ending in one or two '='.
C5_ValidBase64(d) ==
  /\ Len(d) % 4 = 0
  /\ \A i \in 1..Len(d) :
       \/ d[i] \in B64Alphabet
       \/ d[i] = "=" /\ i >= Len(d) - 1 /\ \A j \in i..Len(d) : d[j] = "="

C5_IsEmbeddedImage(v) ==
  /\ StartsWith(v, S_data_image)
  /\ Find(v, {","}) # 0
  /\ C5_ValidBase64(AfterFirstComma(v))

\* C5: an image string that is not an HTTP(S) URL is accepted (and returned
\* unchanged) exactly when it starts with the embedded-image prefix and the
\* payload after the first comma is valid base64; every other such string
\* fails with a validation error.
C5_EmbeddedValidation ==
  (ImageValidated /\ ~StartsWith(call.image[1], S_http)) =>
    IF C5_IsEmbeddedImage(call.image[1]) THEN Accepted ELSE Rejected

\* The POSTs of the current call to {base_url}/v1/search.
SearchPosts ==
  { i \in 1..Len(http) :
      http[i].method = "POST" /\ http[i].url = <<tool[1].base_url, "/v1/search">> }

C6_Embedded(body) ==
  /\ StartsWith(body["image"], S_data_image)
  /\ Find(body["image"], {","}) # 0
  /\ ~StartsWith(body["image"], S_http)

\* C6: in every POST the search adapter sends to {base_url}/v1/search the
\* image field is absent or an embedded-image payload; when the validated
\* request's image was a remote URL, the field is the base64 encoding of the
\* bytes fetched from it.
C6_NoUrlPosted ==
  Invoking("search") =>
    \A i \in SearchPosts :
      /\ "image" \in DOMAIN http[i].json[1] => C6_Embedded(http[i].json[1])
      /\ (call.args.image # None /\ StartsWith(call.args.image[1], S_http)) =>
           /\ i = 2 /\ http[1].method = "GET" /\ http[1].url = call.args.image[1]
           /\ "image" \in DOMAIN http[i].json[1]
           /\ http[i].json[1]["image"]
                = S_jpeg_prefix \o b64encode(call.responses[1].content)

C6_Witness ==
  /\ Invoking("search")
  /\ call.args.image = Some(S_http \o <<":","/","/","h","/","a",".","j","p","g">>)
  /\ SearchPosts = {2}
  /\ http[2].json[1]["image"] = S_jpeg_prefix \o <<"/","4","k","=">>

\* C7: constructing any of the three adapters with no explicit API key and no
\* CRITIQUE_API_KEY in the environment fails with a configuration error, so
\* every request an adapter sends to a Critique endpoint carries a non-empty
\* X-API-Key.
C7_KeyNeverEmpty ==
  /\ (call.op = "new" /\ ~TruthyStr(call.api_key) /\ ~TruthyStr(env)) =>
       result.kind = "raise"
  /\ tool # None =>
       \A i \in CritiqueRequests : TruthyStr(http[i].headers[1]["X-API-Key"])

\* C8: every invocation of a dynamic tool whose argument mapping omits a
\* declared field fails with a validation error and sends no POST.
C8_MissingFieldRejected ==
  (Invoking("dynamic")
     /\ \E k \in DOMAIN tool[1].args_schema.fields : k \notin DOMAIN call.args) =>
    /\ pc = "idle"
    /\ result.kind = "raise" /\ result.exc = "ValidationError"
    /\ http = << >>

C8_Witness ==
  /\ Invoking("dynamic")
  /\ DOMAIN tool[1].args_schema.fields = {"company_name", "metrics"}
  /\ DOMAIN call.args = {"company_name"}
  /\ call.args["company_name"] = PyStr("Test Corp")
  /\ result.kind = "raise"

C9_Conforming ==
  /\ Invoking("dynamic")
  /\ \A k \in DOMAIN tool[1].args_schema.fields :
       k \in DOMAIN call.args /\ call.args[k].ty = tool[1].args_schema.fields[k].type

C10_Every2xxSucceeds ==
  (EndpointAnswered /\ IsJson(LastResponse.text)) =>
    /\ Is2xx(LastResponse.status) => result.kind = "return"
    /\ result.kind = "raise" => ~Is2xx(LastResponse.status)

\* A validated search call whose image is a remote URL.
C11_RemoteImage ==
  /\ Invoking("search")
  /\ validate_search_input(call.args).kind = "return"
  /\ call.args.image # None /\ StartsWith(call.args.image[1], S_http)

\* C11: in a search call whose image is a remote URL the GET of the URL
\* precedes the POST to /v1/search (the POST is sent only after the image
\* host has answered); if the fetch response is non-2xx the call fails with
\* an error whose message includes the status code, and no POST to /v1/search
\* is sent for that call.
C11_FetchBeforePost ==
  C11_RemoteImage =>
    /\ http # << >>
    /\ http[1] = Request("GET", call.args.image[1], None, None)
    /\ \A i \in SearchPosts : i > 1 /\ call.responses # << >>
    /\ (call.responses # << >> /\ ~Is2xx(call.responses[1].status)) =>
         /\ pc = "idle"
         /\ result.kind = "raise"
         /\ \E j \in 1..Len(result.msg) :
              result.msg[j] = ToString(call.responses[1].status)
         /\ SearchPosts = {}

C11_Witness ==
  /\ C11_RemoteImage
  /\ Len(call.responses) = 1 /\ call.responses[1].status = 404
  /\ Len(http) = 1 /\ http[1].method = "GET"
  /\ result = Raise("ValueError", <<"Failed to fetch image. Status code: ", "404">>)

\* The field-spec mappings the current dynamic tool can have been built from.
C12_Declared ==
  { schema \in InputSchemas :
      create_model(tool[1].api_id, schema) = tool[1].args_schema }

\* The arguments give, for a field declared as a list with an item type, a
\* value that is not a list or a list with an element of another type.
C12_BadList(decl, args) ==
  \E k \in DOMAIN decl \cap DOMAIN args :
    /\ decl[k].type = "list" /\ decl[k].items_type # None
    /\ \/ args[k].ty # "list"
       \/ \E i \in 1..Len(args[k].items) : args[k].items[i].ty # decl[k].items_type[1]

\* C12: for a dynamic tool field declared as a list with an item type, an
\* invocation that supplies a non-list value, or a list holding an element of
\* another type, for that field fails validation and sends no request.
C12_ItemsValidated ==
  Invoking("dynamic") =>
    \A decl \in C12_Declared :
      C12_BadList(decl, call.args) =>
        /\ pc = "idle"
        /\ result.kind = "raise" /\ result.exc = "ValidationError"
        /\ http = << >>

\* C13: no step of an invocation, successful or failing, changes the adapter
\* instance: its API key, base URL and headers and, for a dynamic tool, its
\* compiled validator, name and description are the same after the step as
\* before it.
C13_InstanceUnchanged ==
  [][call'.op = "invoke" => tool' = tool]_vars

C13_Witness ==
  /\ Invoking("dynamic") /\ pc = "idle"
  /\ Len(call.responses) = 1 /\ result.kind = "raise" /\ result.exc = "ValueError"
  /\ tool[1].headers = Headers(Some("fake_key"))
  /\ tool[1].args_schema
       = create_model("test_api",
           ("company_name" :> [type |-> "str", description |-> Some("Name of the company"),
                               items_type |-> None]))

====
